---- MODULE Spec2Model ----
(***************************************************************************)
(* Verification model of the inclusion tracker, the input selector, the    *)
(* clock check (client/src/client/high_level.rs) and of the account        *)
(* synchronisation (src/account/operations/syncing/mod.rs).                *)
(***************************************************************************)
EXTENDS Integers, Sequences, FiniteSets, TLC

(***************************************************************************)
(* Bounds of the model                                                     *)
(***************************************************************************)
\* largest explicit max_attempts argument of retry_until_included
MaxAttempts == 3
\* number of reattachments the node recommends at most during one call
MaxReattach == 3
\* the client clock is sampled up to this many seconds beyond the 5 minute window
MaxExtraDrift == 2
\* longest pool of eligible outputs with freely chosen amounts
MaxPool == 4
\* the uniform pools are up to this many outputs longer than INPUT_COUNT_MAX
MaxOver == 2
\* output ids the node knows are 1..MaxOutputs
MaxOutputs == 1
\* transaction ids the node knows are 1..MaxTxs
MaxTxs == 2
\* longest list of updated transactions one transaction sync returns
MaxUpdates == 1
\* the accounts hold the addresses of key_index 0..MaxKeyIndex, public and internal
MaxKeyIndex == 1
\* the wall clock stops at this many milliseconds
MaxClock == 4
\* account, NFT, foundry and token ids of a Burn are 1..MaxBurnIds
MaxBurnIds == 1
\* native token amounts to burn are 1..MaxBurnAmount
MaxBurnAmount == 1
\* number of conversions made in a row
MaxHops == 2

(***************************************************************************)
(* Program constants                                                       *)
(***************************************************************************)
DEFAULT_RETRY_UNTIL_INCLUDED_MAX_AMOUNT == 40
FIVE_MINUTES_IN_SECONDS == 300
INPUT_COUNT_MAX == 128
\* milliseconds; the value is chosen by the implementation
MIN_SYNC_INTERVAL == 2

VARIABLES
    \* ---- Client::retry / Client::retry_until_included ----
    op,              \* which operation the call is: "retry" or "retry_until_included"
    block_id,        \* the block_id argument
    max_attempts,    \* the max_attempts argument: <<>> is None, <<n>> is Some(n)
    local_pow,       \* get_local_pow()
    payload,         \* payload kind of the original block
    rt_pc,           \* position of the call
    round,           \* number of rounds of the for loop started so far
    block_ids,       \* attachments of the block
    blocks_with_id,  \* reattached blocks that get returned
    scan,            \* block_ids.clone() the inner for loop iterates over
    block_ids_len,   \* block_ids.len() taken at the start of the round
    index,           \* enumerate() index of the inner loop (0-based)
    conflicting,     \* the conflicting flag of the round
    result,          \* what the call returned
    observed,        \* block ids whose inclusion state the node reported Included/NoTransaction
    node_called,     \* whether any node request has been made by the call
    calls,           \* promote_unchecked/reattach_unchecked calls of the current round
    meta_reads,      \* metadata requests made in the current round
    meta,            \* the metadata Client::retry read: <<>> before
    \* ---- Client::get_time_checked ----
    tc_pc,           \* position of the call
    current_time,    \* SystemTime::now() in unix seconds, as u32
    latest_ms,       \* status_response.latest_milestone.timestamp (an Option)
    tc_result,       \* what the call returned
    \* ---- Client::find_inputs ----
    fi_pc,           \* position of the call
    pool,            \* amounts of the eligible outputs the node returns, in order
    amount,          \* the amount argument
    basic_outputs,   \* (UtxoInput, amount) pairs, sorted once fetched
    taken,           \* number of elements the take(..).enumerate() loop has consumed
    total_already_spent,
    selected_inputs,
    fi_result,       \* what the call returned
    \* ---- sync_account ----
    acct_of,         \* the account each sync_account caller (task) works on
    scope,           \* [outs, txs, addrs, starts, storage_fails]: the ids the node's
                     \* answers and the callers' options draw on, and whether the
                     \* storage can fail
    clock,           \* SystemTime::now() in milliseconds
    account,         \* AccountState of each account (behind account_handle's RwLock)
    storage,         \* the snapshot save_account persisted last, per account
    last_synced,     \* account_handle.last_synced, per account
    mutex,           \* the task holding the last_synced mutex of each account, or NoTask
    pc,              \* position of each task in sync_account
    options,         \* SyncOptions of the call of each task
    time_now,        \* time_now read at the start of the call
    transaction_sync_result,
    addresses_to_sync,
    addresses_with_balance,
    all_outputs,
    sy_result,       \* what the call of each task returned
    entry,           \* AccountState when the call of each task started
    requested,       \* whether the call of each task has made a node request
    \* ---- Burn / BurnDto conversions ----
    bn_origin,       \* the value the conversions started from: [type, fields]
    bn_value,        \* the value after the conversions made so far
    bn_hops          \* number of conversions made

retryVars == <<op, block_id, max_attempts, local_pow, payload, rt_pc, round, block_ids,
               blocks_with_id, scan, block_ids_len, index, conflicting, result, observed,
               node_called, calls, meta_reads, meta>>

timeVars == <<tc_pc, current_time, latest_ms, tc_result>>

findVars == <<fi_pc, pool, amount, basic_outputs, taken, total_already_spent,
              selected_inputs, fi_result>>

syncVars == <<acct_of, scope, clock, account, storage, last_synced, mutex, pc, options,
              time_now, transaction_sync_result, addresses_to_sync, addresses_with_balance,
              all_outputs, sy_result, entry, requested>>

burnVars == <<bn_origin, bn_value, bn_hops>>

vars == <<retryVars, timeVars, findVars, syncVars, burnVars>>

(***************************************************************************)
(* Values                                                                  *)
(***************************************************************************)
None == <<>>
Some(x) == <<x>>
IsSome(o) == Len(o) = 1
\* Option::unwrap_or
UnwrapOr(o, d) == IF IsSome(o) THEN o[1] ELSE d

NoResult == [kind |-> "None"]
Ok(v) == [kind |-> "Ok", value |-> v]
Err(k) == [kind |-> k]
ErrId(k, id) == [kind |-> k, id |-> id]

\* BlockMetadata as the node answers it: every field is optional
LedgerInclusionStates == {"Included", "NoTransaction", "Conflicting"}
OptStates == {None} \cup {Some(s) : s \in LedgerInclusionStates}
OptBool == {None, Some(TRUE), Some(FALSE)}
BlockMetadata == [ledger_inclusion_state : OptStates,
                  should_promote : OptBool,
                  should_reattach : OptBool]

\* the Block the node holds for an id
Block(id) == [id |-> id]
\* the (BlockId, Block) pair the calls return
Pair(id) == <<id, Block(id)>>
\* id of a block that is not an attachment made by this client
ForeignId == MaxReattach + 1

(***************************************************************************)
(* promote_unchecked / reattach_unchecked: the outcomes of one call.       *)
(* Each is a chain of node requests, any of which may fail; the block is   *)
(* posted by post_block_raw, and with remote PoW a get_block follows it.   *)
(***************************************************************************)
PromoteOutcomes(local) ==
    {"fail_before_post", "ok"} \cup (IF local THEN {} ELSE {"fail_after_post"})

ReattachOutcomes(local) ==
    {"fail_before_post", "ok"} \cup (IF local THEN {} ELSE {"fail_after_post"})

Posted(outcome) == outcome \in {"ok", "fail_after_post"}

\* record of one promote_unchecked/reattach_unchecked call
UncheckedCall(kind, target, outcome) ==
    [kind |-> kind, target |-> target, posted |-> Posted(outcome)]

\* slice::rotate_left(mid), defined for mid <= len
RotateLeft(s, mid) ==
    [k \in 1..Len(s) |-> s[((k - 1 + mid) % Len(s)) + 1]]

(***************************************************************************)
(* The state of an operation that is not being called                      *)
(***************************************************************************)
RetryIdle ==
    /\ op = "none" /\ block_id = 0 /\ max_attempts = None /\ local_pow = FALSE
    /\ payload = "NoPayload" /\ rt_pc = "idle" /\ round = 0 /\ block_ids = <<>>
    /\ blocks_with_id = <<>> /\ scan = <<>> /\ block_ids_len = 0 /\ index = 0
    /\ conflicting = FALSE /\ result = NoResult /\ observed = {}
    /\ node_called = FALSE /\ calls = <<>> /\ meta_reads = 0 /\ meta = None

TimeIdle ==
    /\ tc_pc = "idle" /\ current_time = 0 /\ latest_ms = None /\ tc_result = NoResult

FindIdle ==
    /\ fi_pc = "idle" /\ pool = <<>> /\ amount = 0 /\ basic_outputs = <<>> /\ taken = 0
    /\ total_already_spent = 0 /\ selected_inputs = <<>> /\ fi_result = NoResult

SyncIdle ==
    /\ acct_of = <<>> /\ scope = [outs |-> {}, txs |-> {}, addrs |-> {}, starts |-> {}, storage_fails |-> FALSE]
    /\ clock = 0
    /\ account = <<>> /\ storage = <<>> /\ last_synced = <<>> /\ mutex = <<>>
    /\ pc = <<>> /\ options = <<>> /\ time_now = <<>> /\ transaction_sync_result = <<>>
    /\ addresses_to_sync = <<>> /\ addresses_with_balance = <<>> /\ all_outputs = <<>>
    /\ sy_result = <<>> /\ entry = <<>> /\ requested = <<>>

NoBurn == [type |-> "none"]

BurnIdle ==
    /\ bn_origin = NoBurn /\ bn_value = NoBurn /\ bn_hops = 0

(***************************************************************************)
(* Client::retry_until_included and Client::retry                          *)
(***************************************************************************)
RetryStart ==
    /\ op \in {"retry", "retry_until_included"}
    /\ block_id = 0
    /\ max_attempts \in IF op = "retry" THEN {None}
                        ELSE {None} \cup {Some(n) : n \in 0..MaxAttempts}
    /\ local_pow \in BOOLEAN
    /\ payload \in {"Transaction", "TaggedData", "NoPayload"}
    /\ rt_pc = IF op = "retry" THEN "retry" ELSE "loop"
    /\ round = 0
    /\ block_ids = <<block_id>>
    /\ blocks_with_id = <<>>
    /\ scan = <<>>
    /\ block_ids_len = 0
    /\ index = 0
    /\ conflicting = FALSE
    /\ result = NoResult
    /\ observed = {}
    /\ node_called = FALSE
    /\ calls = <<>>
    /\ meta_reads = 0
    /\ meta = None

\* the call returns r
Return(r) ==
    /\ rt_pc' = "done"
    /\ result' = r

\* the node recommends a reattachment only MaxReattach times (bound of the model)
NodeMetadata ==
    {md \in BlockMetadata :
        UnwrapOr(md.should_reattach, FALSE) /\ ~UnwrapOr(md.should_promote, FALSE)
            => Len(blocks_with_id) < MaxReattach}

RetryDecision_ReattachFirst(md) ==
    IF UnwrapOr(md.should_reattach, FALSE) THEN "reattach"
    ELSE IF UnwrapOr(md.should_promote, FALSE) THEN "promote"
    ELSE "none"

\* the if / else if / else of Client::retry
RetryDecision(md) ==
    IF UnwrapOr(md.should_promote, FALSE) THEN "promote"
    ELSE IF UnwrapOr(md.should_reattach, FALSE) THEN "reattach"
    ELSE "none"

\* the if / else if on the latest attachment in retry_until_included
LatestDecision(md) ==
    IF UnwrapOr(md.should_promote, FALSE) THEN "promote"
    ELSE IF UnwrapOr(md.should_reattach, FALSE) THEN "reattach"
    ELSE "none"

UncheckedOutcomes(kind, local) ==
    IF kind = "promote" THEN PromoteOutcomes(local) ELSE ReattachOutcomes(local)

\* Client::retry
Retry ==
    /\ rt_pc = "retry"
    /\ UNCHANGED <<timeVars, findVars, syncVars, burnVars>>
    /\ node_called' = TRUE
    /\ UNCHANGED <<op, block_id, max_attempts, local_pow, payload, round, scan,
                   block_ids_len, index, conflicting, observed, block_ids, blocks_with_id>>
    /\ \/ \* get_block_metadata fails
          /\ Return(Err("NodeError"))
          /\ UNCHANGED <<calls, meta_reads, meta>>
       \/ \E md \in NodeMetadata :
            /\ meta_reads' = meta_reads + 1
            /\ meta' = Some(md)
            /\ LET d == RetryDecision(md) IN
               IF d = "none"
               THEN /\ calls' = calls
                    /\ Return(ErrId("NoNeedPromoteOrReattach", block_id))
               ELSE \E o \in UncheckedOutcomes(d, local_pow) :
                      /\ calls' = Append(calls, UncheckedCall(d, block_id, o))
                      /\ Return(IF o = "ok" THEN Ok(<<d>>) ELSE Err("NodeError"))

RoundsLeft_Inclusive ==
    round <= UnwrapOr(max_attempts, DEFAULT_RETRY_UNTIL_INCLUDED_MAX_AMOUNT)

\* for _ in 0..max_attempts.unwrap_or(DEFAULT_RETRY_UNTIL_INCLUDED_MAX_AMOUNT)
RoundsLeft ==
    round < UnwrapOr(max_attempts, DEFAULT_RETRY_UNTIL_INCLUDED_MAX_AMOUNT)

\* the next round starts (sleep, block_ids.len(), conflicting = false,
\* block_ids.clone()) or the loop is exhausted
RoundStart ==
    /\ rt_pc = "loop"
    /\ UNCHANGED <<timeVars, findVars, syncVars, burnVars>>
    /\ UNCHANGED <<op, block_id, max_attempts, local_pow, payload, block_ids,
                   blocks_with_id, observed, node_called, meta>>
    /\ IF RoundsLeft
       THEN /\ round' = round + 1
            /\ block_ids_len' = Len(block_ids)
            /\ conflicting' = FALSE
            /\ scan' = block_ids
            /\ index' = 0
            /\ calls' = <<>>
            /\ meta_reads' = 0
            /\ rt_pc' = "scan"
            /\ UNCHANGED result
       ELSE /\ Return(ErrId("TangleInclusionError", block_id))
            /\ UNCHANGED <<round, block_ids_len, conflicting, scan, index, calls, meta_reads>>

IncludedAndReattached_Alone(id) == <<Pair(id)>>

\* vec![(id, block)] extended with blocks_with_id
IncludedAndReattached(id) == <<Pair(id)>> \o blocks_with_id

\* the list returned when the attachment at `index` (not the original) is included
IncludedReattachment(idx) ==
    IF idx <= Len(blocks_with_id)
    THEN Ok(RotateLeft(blocks_with_id, idx))
    ELSE Err("panic")

IsLatest_Any == TRUE

\* if index == block_ids_len - 1
IsLatest == index = block_ids_len - 1

PushReattached_Dropped(list, id) == list

\* blocks_with_id.push(reattached)
PushReattached(list, id) == Append(list, Pair(id))

\* one iteration of `for (index, block_id_) in block_ids.clone().iter().enumerate()`
PollAttachment ==
    /\ rt_pc = "scan"
    /\ UNCHANGED <<timeVars, findVars, syncVars, burnVars>>
    /\ index < Len(scan)
    /\ node_called' = TRUE
    /\ UNCHANGED <<op, block_id, max_attempts, local_pow, payload, round, scan, block_ids_len,
                   meta>>
    /\ LET block_id_ == scan[index + 1]
           last == block_ids[Len(block_ids)]
           next_pc == IF index + 1 < Len(scan) THEN "scan" ELSE "after"
       IN
       \/ \* get_block_metadata fails
          /\ Return(Err("NodeError"))
          /\ UNCHANGED <<block_ids, blocks_with_id, index, conflicting, observed, calls,
                         meta_reads>>
       \/ \E md \in NodeMetadata :
            /\ meta_reads' = meta_reads + 1
            /\ IF /\ IsSome(md.ledger_inclusion_state)
                  /\ md.ledger_inclusion_state[1] \in {"Included", "NoTransaction"}
               THEN /\ observed' = observed \cup {block_id_}
                    /\ UNCHANGED <<block_ids, blocks_with_id, index, conflicting, calls>>
                    /\ IF block_id = block_id_
                       THEN \/ Return(Ok(IncludedAndReattached(block_id)))
                            \/ \* get_block fails
                               Return(Err("NodeError"))
                       ELSE Return(IncludedReattachment(index))
               ELSE /\ conflicting' =
                         (conflicting \/ md.ledger_inclusion_state = Some("Conflicting"))
                    /\ observed' = observed
                    /\ index' = index + 1
                    /\ LET d == IF IsLatest THEN LatestDecision(md) ELSE "none"
                       IN
                       IF d = "none"
                       THEN /\ UNCHANGED <<block_ids, blocks_with_id, calls, result>>
                            /\ rt_pc' = next_pc
                       ELSE \E o \in UncheckedOutcomes(d, local_pow) :
                              /\ calls' = Append(calls, UncheckedCall(d, last, o))
                              /\ IF o = "ok"
                                 THEN rt_pc' = next_pc /\ result' = result
                                 ELSE Return(Err("NodeError"))
                              /\ IF o = "ok" /\ d = "reattach"
                                 THEN /\ block_ids' = Append(block_ids, Len(block_ids))
                                      /\ blocks_with_id' =
                                           PushReattached(blocks_with_id, Len(block_ids))
                                 ELSE UNCHANGED <<block_ids, blocks_with_id>>

\* after the scan: `if conflicting { ... get_included_block ... }`
ConflictCheck ==
    /\ rt_pc = "after"
    /\ UNCHANGED <<timeVars, findVars, syncVars, burnVars>>
    /\ UNCHANGED <<op, block_id, max_attempts, local_pow, payload, round, scan, block_ids_len,
                   index, conflicting, block_ids, blocks_with_id, calls, meta_reads, meta>>
    /\ IF conflicting
       THEN /\ node_called' = TRUE
            /\ \/ \* get_block(block_id) fails
                  Return(Err("NodeError")) /\ observed' = observed
               \/ IF payload = "Transaction"
                  THEN \/ \* get_included_block fails: the request fails, or the node
                          \* holds no included block for the transaction; a Block is
                          \* returned or the error leaves the call by `?`
                          /\ \E k \in {"NodeError", "NotFound"} : Return(Err(k))
                          /\ observed' = observed
                       \/ \E id \in {ForeignId} \cup {block_ids[i] : i \in 1..Len(block_ids)} :
                            /\ observed' = observed \cup {id}
                            /\ Return(Ok(IncludedAndReattached(id)))
                  ELSE /\ rt_pc' = "loop"
                       /\ UNCHANGED <<result, observed>>
       ELSE /\ rt_pc' = "loop"
            /\ UNCHANGED <<result, observed, node_called>>

RetryNext == Retry \/ RoundStart \/ PollAttachment \/ ConflictCheck

RetryInit == RetryStart /\ TimeIdle /\ FindIdle /\ SyncIdle /\ BurnIdle

RetrySpec == RetryInit /\ [][RetryNext]_vars

\* a call that is not cancelled keeps being scheduled until it returns
FairRetrySpec == RetrySpec /\ WF_vars(RetryNext)

(***************************************************************************)
(* Claims on retry_until_included and retry                                *)
(***************************************************************************)
Returned == rt_pc = "done"
Tracking == op = "retry_until_included"

\* C1: the first pair of every list retry_until_included returns is a block
\* whose inclusion state was observed as Included or NoTransaction.
C1_FirstReturnedIsIncluded ==
    (Tracking /\ Returned /\ result.kind = "Ok") => result.value[1][1] \in observed

\* C4 (state part): a call never runs more than max_attempts rounds; it fails with
\* TangleInclusionError(block_id) only after exactly max_attempts rounds; with
\* max_attempts = 0 it fails at once without a node request; a call in which no
\* round returned and no node call failed ends with TangleInclusionError.
C4_RoundsBounded ==
    Tracking =>
      LET max == UnwrapOr(max_attempts, DEFAULT_RETRY_UNTIL_INCLUDED_MAX_AMOUNT) IN
      /\ round <= max
      /\ (Returned /\ result.kind = "TangleInclusionError")
            => (round = max /\ result = ErrId("TangleInclusionError", block_id))
      /\ (Returned /\ max = 0)
            => (~node_called /\ result.kind = "TangleInclusionError")
      /\ Returned => result.kind \in {"Ok", "NodeError", "NotFound", "TangleInclusionError"}

\* C4: retry_until_included always terminates, within max_attempts rounds.
C4_TerminatesWithinMaxAttempts ==
    [](C4_RoundsBounded) /\ (Tracking => <>Returned)

\* C4 witness: every round of a call with 3 rounds was used up, with reattachments.
C4_Witness ==
    /\ Tracking /\ Returned
    /\ result.kind = "TangleInclusionError"
    /\ max_attempts = Some(round) /\ round >= 2
    /\ Len(block_ids) >= 2

\* C10: retry reads the metadata once; it promotes when should_promote is true
\* (also when should_reattach is true too), else reattaches when should_reattach
\* is true, else posts nothing and fails with NoNeedPromoteOrReattach(block_id).
C10_RetryDecides ==
    (op = "retry" /\ Returned) =>
      /\ meta_reads <= 1
      /\ (meta_reads = 0) => (meta = None /\ calls = <<>> /\ result = Err("NodeError"))
      /\ (meta_reads = 1) =>
           LET md == meta[1]
               promote == md.should_promote = Some(TRUE)
               reattach == md.should_reattach = Some(TRUE)
           IN
           /\ promote =>
                /\ Len(calls) = 1 /\ calls[1].kind = "promote" /\ calls[1].target = block_id
                /\ result \in {Ok(<<"promote">>), Err("NodeError")}
           /\ (~promote /\ reattach) =>
                /\ Len(calls) = 1 /\ calls[1].kind = "reattach" /\ calls[1].target = block_id
                /\ result \in {Ok(<<"reattach">>), Err("NodeError")}
           /\ (~promote /\ ~reattach) =>
                /\ calls = <<>>
                /\ result = ErrId("NoNeedPromoteOrReattach", block_id)

\* C10 witness: both flags were true and the block was promoted.
C10_Witness ==
    /\ op = "retry" /\ Returned /\ meta_reads = 1
    /\ meta[1].should_promote = Some(TRUE) /\ meta[1].should_reattach = Some(TRUE)
    /\ result = Ok(<<"promote">>)
    /\ calls = <<[kind |-> "promote", target |-> block_id, posted |-> TRUE]>>

\* C12: when the call returns because the original block is observed Included or
\* NoTransaction, or because after a Conflicting observation get_included_block
\* finds the transaction included, the result is the confirmed pair followed by
\* every reattachment made so far, each once and in the order they were made.
C12_IncludedThenReattachments ==
    [][(/\ Tracking /\ rt_pc # "done" /\ rt_pc' = "done" /\ result'.kind = "Ok"
        /\ (rt_pc = "after" \/ scan[index + 1] = block_id)) =>
          LET R == result'.value IN
          /\ Len(R) = Len(block_ids)
          /\ R[1][1] \in observed'
          /\ R[1] = Pair(R[1][1])
          /\ rt_pc = "scan" => R[1] = Pair(block_id)
          /\ \A i \in 2..Len(R) : R[i] = Pair(block_ids[i])
          /\ \A i \in 2..Len(R) : \A j \in 2..Len(R) : i # j => R[i] # R[j]]_vars

\* C12 witness: after two reattachments the transaction was found included in a
\* block of another client, returned before the two reattachments.
C12_Witness ==
    /\ Tracking /\ Returned
    /\ Len(block_ids) = 3
    /\ result = Ok(<<Pair(ForeignId), Pair(block_ids[2]), Pair(block_ids[3])>>)

\* C18: in every round the attachments are polled in insertion order and at most
\* one block is posted, for the attachment that was last at the start of the
\* round; a reattachment made in a round is appended at the end and is first
\* polled in the next round.
C18_OnlyLatestIsRetried ==
    /\ [](Tracking /\ round >= 1 =>
            /\ index <= Len(scan)
            /\ meta_reads \in {index, index + 1}
            /\ block_ids_len = Len(scan)
            /\ scan = SubSeq(block_ids, 1, Len(scan))
            /\ Len(calls) <= 1
            /\ Len(calls) = 1 =>
                  /\ calls[1].target = scan[block_ids_len]
                  /\ index = block_ids_len
            /\ Len(block_ids) <= Len(scan) + 1
            /\ Len(block_ids) = Len(scan) + 1 =>
                  (Len(calls) = 1 /\ calls[1].kind = "reattach"))
    /\ [][Tracking =>
            /\ (rt_pc = "scan" /\ meta_reads' = meta_reads + 1) => meta_reads = index
            /\ (rt_pc = "loop" /\ rt_pc' = "scan") =>
                  (scan' = block_ids /\ index' = 0 /\ meta_reads' = 0 /\ calls' = <<>>)]_vars

\* C18 witness: a round over three attachments reattached the last one; the new
\* attachment is at the end and was not polled in the round.
C18_Witness ==
    /\ Tracking /\ rt_pc = "after"
    /\ Len(scan) = 3 /\ meta_reads = 3
    /\ calls = <<[kind |-> "reattach", target |-> scan[3], posted |-> TRUE]>>
    /\ Len(block_ids) = 4

ConflictingOnly ==
    /\ Tracking /\ Returned
    /\ max_attempts = Some(2)
    /\ payload = "Transaction"
    /\ result.kind # "NodeError"
    /\ observed = {}
    /\ block_ids = <<block_id>>
    /\ calls = <<>>
    /\ round >= 1 => conflicting

\* C13: when B is Conflicting in every round, never to be promoted or reattached,
\* and no block with its transaction is included, retry_until_included(B, 1, 2)
\* fails with TangleInclusionError(B) after 2 rounds, not earlier and with no
\* other error.
C13_ConflictingIsAbsorbed ==
    ConflictingOnly => (round = 2 /\ result = ErrId("TangleInclusionError", block_id))

(***************************************************************************)
(* Client::get_time_checked                                                *)
(***************************************************************************)
\* milestone timestamps the node reports (u32; values of 2^31 and more are beyond
\* the integers of the model checker and are not sampled)
TimestampSamples ==
    {FIVE_MINUTES_IN_SECONDS, FIVE_MINUTES_IN_SECONDS + 1, 1700000400, 1700001000}

\* differences client_now - latest_milestone_timestamp
DriftSamples ==
    (-(FIVE_MINUTES_IN_SECONDS + MaxExtraDrift) .. (FIVE_MINUTES_IN_SECONDS + MaxExtraDrift))
        \cup {-1000, -400, 400, 1000}

TimeStart ==
    /\ tc_pc = "call"
    /\ latest_ms \in {None} \cup {Some(ts) : ts \in TimestampSamples}
    /\ current_time \in IF IsSome(latest_ms)
                        THEN {t \in {latest_ms[1] + d : d \in DriftSamples} : t >= 0}
                        ELSE {0, 1700000000}
    /\ tc_result = NoResult

TimeNotSynced(now, milestone_timestamp) ==
    [kind |-> "TimeNotSynced", current_time |-> now,
     milestone_timestamp |-> milestone_timestamp]

InWindow_Unchecked(now, start, end) == TRUE

\* (start..end).contains(&current_time)
InWindow(now, start, end) ==
    start <= now /\ now < end

\* The results of the drift check.  latest_ms_timestamp - FIVE_MINUTES_IN_SECONDS
\* is u32 arithmetic: when it underflows, a build with overflow checks panics and
\* one without wraps to 2^32 - k, a start above the end of the range, so that
\* the range is empty and contains no current_time.
DriftCheck(now, latest_ms_timestamp) ==
    LET start == latest_ms_timestamp - FIVE_MINUTES_IN_SECONDS
        end == latest_ms_timestamp + FIVE_MINUTES_IN_SECONDS
    IN IF start < 0
       THEN {Err("panic"), TimeNotSynced(now, latest_ms_timestamp)}
       ELSE {IF ~InWindow(now, start, end)
             THEN TimeNotSynced(now, latest_ms_timestamp)
             ELSE Ok(now)}

LatestMilestoneTimestamp_OrDefault ==
    IF IsSome(latest_ms) THEN latest_ms ELSE Some(0)

\* status_response.latest_milestone.timestamp
LatestMilestoneTimestamp == latest_ms

GetTimeChecked ==
    /\ tc_pc = "call"
    /\ tc_pc' = "done"
    /\ UNCHANGED <<current_time, latest_ms, retryVars, findVars, syncVars, burnVars>>
    /\ \/ \* get_info fails
          tc_result' = Err("NodeError")
       \/ IF IsSome(LatestMilestoneTimestamp)
          THEN tc_result' \in DriftCheck(current_time, LatestMilestoneTimestamp[1])
          ELSE tc_result' = Ok(current_time)

TimeNext == GetTimeChecked

TimeInit == TimeStart /\ RetryIdle /\ FindIdle /\ SyncIdle /\ BurnIdle

TimeSpec == TimeInit /\ [][TimeNext]_vars

\* the node answered get_info and reported a latest milestone timestamp
TimeChecked ==
    tc_pc = "done" /\ tc_result # Err("NodeError") /\ IsSome(latest_ms)

AbsDiff(a, b) == IF a >= b THEN a - b ELSE b - a

\* C5: get_time_checked returns the client's unix seconds exactly when
\* |client_now - latest_milestone_timestamp| < 300 and fails with
\* TimeNotSynced{current_time, milestone_timestamp} otherwise, a difference of
\* exactly 300 seconds in either direction included.
C5_DriftWindowSymmetric ==
    TimeChecked =>
      IF AbsDiff(current_time, latest_ms[1]) < FIVE_MINUTES_IN_SECONDS
      THEN tc_result = Ok(current_time)
      ELSE tc_result = TimeNotSynced(current_time, latest_ms[1])

\* scenario S6: the client clock is 1_700_000_000, the node answers and reports
\* the latest milestone timestamp 1_700_000_400
ClockBehindBy400 ==
    /\ tc_pc = "done" /\ tc_result # Err("NodeError")
    /\ current_time = 1700000000
    /\ latest_ms = Some(1700000400)

\* C14 as stated: get_time_checked() with client time 1_700_000_000 and latest
\* milestone timestamp 1_700_000_400 succeeds and returns 1_700_000_000.
C14_S6Succeeds ==
    ClockBehindBy400 => tc_result = Ok(1700000000)

\* C14 amended: get_time_checked() with client time 1_700_000_000 and latest
\* milestone timestamp 1_700_000_400 fails with TimeNotSynced{current_time:
\* 1_700_000_000, milestone_timestamp: 1_700_000_400}, the client being 400 s
\* behind, outside the 300 s window.
C14_S6FailsTimeNotSynced ==
    ClockBehindBy400 => tc_result = TimeNotSynced(1700000000, 1700000400)

C14_Witness ==
    /\ ClockBehindBy400
    /\ tc_result.kind = "TimeNotSynced"

\* the node answered get_info and its latest milestone carries no timestamp
NoTimestamp ==
    tc_pc = "done" /\ tc_result # Err("NodeError") /\ latest_ms = None

\* C26: when the node's info carries no latest milestone timestamp,
\* get_time_checked makes no drift check: it returns the client's current unix
\* seconds and does not fail with TimeNotSynced, whatever the client clock reads.
C26_NoTimestampNoDriftCheck ==
    NoTimestamp => tc_result = Ok(current_time)

\* C26 witness: no timestamp and a client clock at 0, which no milestone of the
\* node's range would accept
C26_Witness ==
    NoTimestamp /\ current_time = 0 /\ tc_result = Ok(0)

(***************************************************************************)
(* Client::find_inputs                                                     *)
(***************************************************************************)
\* sum of s[lo..hi]
RECURSIVE SumRange(_, _, _)
SumRange(s, lo, hi) ==
    IF lo > hi THEN 0
    ELSE IF lo = hi THEN s[lo]
    ELSE LET mid == (lo + hi) \div 2
         IN SumRange(s, lo, mid) + SumRange(s, mid + 1, hi)

SumAmounts(s) == SumRange(s, 1, Len(s))

\* a pool of n outputs of amount a
UniformPool(n, a) == [i \in 1..n |-> a]

AmountSamples == {300, 400, 600}

\* pools of eligible outputs, in the order the node returns them: every short
\* pool, and uniform pools around INPUT_COUNT_MAX outputs
PoolSamples ==
    UNION {[1..n -> AmountSamples] : n \in 0..MaxPool}
        \cup {UniformPool(n, 1) : n \in (INPUT_COUNT_MAX - 1)..(INPUT_COUNT_MAX + MaxOver)}

TargetSamples ==
    {0, 1, 600, 1000, 1001, 1700, 5000,
     INPUT_COUNT_MAX - 1, INPUT_COUNT_MAX, INPUT_COUNT_MAX + 1}

FindStart ==
    /\ fi_pc = "fetch"
    /\ pool \in PoolSamples
    /\ amount \in TargetSamples
    /\ basic_outputs = <<>>
    /\ taken = 0
    /\ total_already_spent = 0
    /\ selected_inputs = <<>>
    /\ fi_result = NoResult

\* the (UtxoInput, amount) pairs pushed for the available outputs; a UtxoInput is
\* identified by the position of its output in the node's answer
OutputWrappers(p) == [i \in 1..Len(p) |-> [input |-> i, amount |-> p[i]]]

\* slice::sort_by, a stable sort: element i of s goes to the position after all
\* elements the comparator orders before it and all earlier elements it compares
\* Equal to (rank is tabulated once, by @@)
StableSortBy(before(_, _), s) ==
    LET n == Len(s)
        rank == [i \in 1..n |->
                    Cardinality({j \in 1..n :
                        \/ before(s[j], s[i])
                        \/ (~before(s[i], s[j]) /\ j < i)}) + 1] @@ <<>>
    IN [k \in 1..n |-> s[CHOOSE i \in 1..n : rank[i] = k]]

AmountAscending(l, r) == l.amount < r.amount

\* |l, r| r.1.cmp(&l.1) is Less
AmountDescending(l, r) == r.amount < l.amount

SortOutputs_Ascending(s) == StableSortBy(AmountAscending, s)

\* basic_outputs.sort_by(|l, r| r.1.cmp(&l.1))
SortOutputs(s) == StableSortBy(AmountDescending, s)

\* the outputs are fetched for every address, the time is checked, the amounts are
\* computed and the pairs are sorted
FetchAndSort ==
    /\ fi_pc = "fetch"
    /\ UNCHANGED <<pool, amount, taken, total_already_spent, selected_inputs,
                   retryVars, timeVars, syncVars, burnVars>>
    /\ \/ \* basic_output_ids, get_outputs, get_time_checked or a conversion fails
          /\ \E k \in {"NodeError", "TimeNotSynced"} : fi_result' = Err(k)
          /\ fi_pc' = "done"
          /\ UNCHANGED basic_outputs
       \/ /\ basic_outputs' = SortOutputs(OutputWrappers(pool))
          /\ fi_pc' = "select"
          /\ UNCHANGED fi_result

EnoughFunds_Strict(total, target) == total > target

TakeLimit_All(s) == Len(s)

\* total_already_spent == amount || total_already_spent >= amount
EnoughFunds(total, target) == total = target \/ total >= target

\* .take(INPUT_COUNT_MAX.into())
TakeLimit(s) == IF Len(s) < INPUT_COUNT_MAX THEN Len(s) ELSE INPUT_COUNT_MAX

\* one iteration of the selection loop, or its end
SelectInput ==
    /\ fi_pc = "select"
    /\ UNCHANGED <<pool, amount, basic_outputs, fi_result, retryVars, timeVars, syncVars, burnVars>>
    /\ IF taken < TakeLimit(basic_outputs) /\ ~EnoughFunds(total_already_spent, amount)
       THEN /\ selected_inputs' = Append(selected_inputs, basic_outputs[taken + 1].input)
            /\ total_already_spent' = total_already_spent + basic_outputs[taken + 1].amount
            /\ taken' = taken + 1
            /\ fi_pc' = "select"
       ELSE /\ fi_pc' = "finish"
            /\ UNCHANGED <<selected_inputs, total_already_spent, taken>>

NotEnoughBalance(found, required) ==
    [kind |-> "NotEnoughBalance", found |-> found, required |-> required]

\* `if total_already_spent < amount { return Err(..) } Ok(selected_inputs)`
FinishFindInputs ==
    /\ fi_pc = "finish"
    /\ fi_pc' = "done"
    /\ UNCHANGED <<pool, amount, basic_outputs, taken, total_already_spent, selected_inputs,
                   retryVars, timeVars, syncVars, burnVars>>
    /\ fi_result' = IF total_already_spent < amount
                    THEN NotEnoughBalance(total_already_spent, amount)
                    ELSE Ok(selected_inputs)

FindNext == FetchAndSort \/ SelectInput \/ FinishFindInputs

FindInit == FindStart /\ RetryIdle /\ TimeIdle /\ SyncIdle /\ BurnIdle

FindSpec == FindInit /\ [][FindNext]_vars

\* amounts of a list of inputs
InputAmounts(r) == [i \in 1..Len(r) |-> pool[r[i]]]

\* input x comes before input y in the descending order that keeps ties in
\* insertion order
ComesBefore(x, y) == pool[x] > pool[y] \/ (pool[x] = pool[y] /\ x < y)

\* C3: a successful find_inputs returns inputs whose amounts sum to at least
\* amount, at most INPUT_COUNT_MAX of them, a prefix of the eligible outputs in
\* descending order of amount (ties in insertion order), and the shortest such
\* prefix: without its last input the sum is below amount.
C3_ShortestDescendingPrefix ==
    (fi_pc = "done" /\ fi_result.kind = "Ok") =>
      LET R == fi_result.value
          n == Len(R)
          chosen == {R[i] : i \in 1..n}
      IN
      /\ SumAmounts(InputAmounts(R)) >= amount
      /\ n <= INPUT_COUNT_MAX
      /\ chosen \subseteq 1..Len(pool)
      /\ Cardinality(chosen) = n
      /\ \A i \in 1..n : \A j \in 1..n : i < j => ComesBefore(R[i], R[j])
      /\ \A x \in chosen : \A y \in (1..Len(pool)) \ chosen : ComesBefore(x, y)
      /\ n > 0 => SumAmounts(InputAmounts(SubSeq(R, 1, n - 1))) < amount

\* C3 witness: the pool [600,400,400,300] with amount 1001 gave [600,400,400].
C3_Witness ==
    /\ fi_pc = "done"
    /\ pool = <<400, 600, 300, 400>>
    /\ amount = 1001
    /\ fi_result = Ok(<<2, 1, 4>>)

\* the amounts of the selectable outputs, the at most INPUT_COUNT_MAX largest
\* eligible ones, and 0 for the others
SelectableAmounts ==
    [x \in 1..Len(pool) |->
        IF Cardinality({y \in 1..Len(pool) : ComesBefore(y, x)}) < INPUT_COUNT_MAX
        THEN pool[x] ELSE 0]

\* C11: find_inputs fails with NotEnoughBalance exactly when the total of the
\* selectable outputs is strictly less than amount; then found is that total,
\* required is amount, and there is no input list.
C11_NotEnoughBalance ==
    (fi_pc = "done" /\ fi_result.kind \in {"Ok", "NotEnoughBalance"}) =>
        /\ fi_result.kind = "NotEnoughBalance" <=> SumAmounts(SelectableAmounts) < amount
        /\ fi_result.kind = "NotEnoughBalance" =>
             fi_result = [kind |-> "NotEnoughBalance",
                          found |-> SumAmounts(SelectableAmounts),
                          required |-> amount]

\* C11 witness: the pool [600,400,400,300] with amount 5000 failed with found 1700.
C11_Witness ==
    /\ fi_pc = "done"
    /\ pool = <<600, 400, 400, 300>>
    /\ amount = 5000
    /\ fi_result = [kind |-> "NotEnoughBalance", found |-> 1700, required |-> 5000]

(***************************************************************************)
(* AccountState and update_account                                         *)
(***************************************************************************)
OutputIds == 1..MaxOutputs
TxIds == 1..MaxTxs
InclusionStates == {"Pending", "Confirmed", "Conflicting"}

\* HashMap::insert, HashMap::remove
MapInsert(m, k, v) == [x \in DOMAIN m \cup {k} |-> IF x = k THEN v ELSE m[x]]
MapRemove(m, k) == [x \in DOMAIN m \ {k} |-> m[x]]

\* the elements of a set of numbers, in ascending order
RECURSIVE SetToSeq(_)
SetToSeq(S) ==
    IF S = {} THEN <<>>
    ELSE LET m == CHOOSE x \in S : \A y \in S : x <= y
         IN <<m>> \o SetToSeq(S \ {m})

OutputData(id, spent) == [output_id |-> id, is_spent |-> spent, amount |-> 1]
TransactionData(id, state) == [id |-> id, inclusion_state |-> state]
AccountAddress(k, int) == [key_index |-> k, internal |-> int, used |-> FALSE]
AddressWithBalance(k, int, amt) == [key_index |-> k, internal |-> int, amount |-> amt]

\* (key_index, internal) keys compare as tuples; false < true
KeyLess(a, b) ==
    a.key_index < b.key_index \/ (a.key_index = b.key_index /\ ~a.internal /\ b.internal)

\* slice::binary_search_by_key: the position (from 1) of an entry with the key, or
\* 0 when the search misses
RECURSIVE BinarySearch(_, _, _, _)
BinarySearch(list, key, left, right) ==
    IF left >= right THEN 0
    ELSE LET mid == left + ((right - left) \div 2)
         IN IF KeyLess(list[mid + 1], key) THEN BinarySearch(list, key, mid + 1, right)
            ELSE IF KeyLess(key, list[mid + 1]) THEN BinarySearch(list, key, left, mid)
            ELSE mid + 1

BinarySearchByKey(list, key) == BinarySearch(list, key, 0, Len(list))

\* update used field of the addresses; stops at the first address that is not found
RECURSIVE MarkUsed(_, _, _)
MarkUsed(acc, awb, i) ==
    IF i > Len(awb) THEN [error |-> FALSE, account |-> acc]
    ELSE IF awb[i].internal
    THEN LET position == BinarySearchByKey(acc.internal_addresses, awb[i])
         IN IF position = 0 THEN [error |-> TRUE, account |-> acc]
            ELSE MarkUsed([acc EXCEPT !.internal_addresses[position].used = TRUE], awb, i + 1)
    ELSE LET position == BinarySearchByKey(acc.public_addresses, awb[i])
         IN IF position = 0 THEN [error |-> TRUE, account |-> acc]
            ELSE MarkUsed([acc EXCEPT !.public_addresses[position].used = TRUE], awb, i + 1)

MergeAddressesWithBalance_KeepAll(acc, awb, opts) ==
    [acc EXCEPT !.addresses_with_balance = acc.addresses_with_balance \o awb]

\* addresses below address_start_index are kept, the synced ones are appended
MergeAddressesWithBalance(acc, awb, opts) ==
    [acc EXCEPT !.addresses_with_balance =
        SelectSeq(acc.addresses_with_balance,
                  LAMBDA a : a.key_index < opts.address_start_index) \o awb]

\* `for output in outputs`
RECURSIVE InsertOutputs(_, _)
InsertOutputs(acc, outs) ==
    IF outs = <<>> THEN acc
    ELSE LET output == outs[1]
             a1 == [acc EXCEPT !.outputs = MapInsert(@, output.output_id, output)]
             a2 == IF ~output.is_spent
                   THEN [a1 EXCEPT !.unspent_outputs = MapInsert(@, output.output_id, output)]
                   ELSE a1
         IN InsertOutputs(a2, Tail(outs))

ApplyTransaction_KeepPending(acc, transaction) ==
    [acc EXCEPT !.transactions = MapInsert(@, transaction.id, transaction)]

\* body of `for transaction in transaction_sync_result.updated_transactions`
ApplyTransaction(acc, transaction) ==
    LET a1 == IF transaction.inclusion_state \in {"Confirmed", "Conflicting"}
              THEN [acc EXCEPT !.pending_transactions = @ \ {transaction.id}]
              ELSE acc
    IN [a1 EXCEPT !.transactions = MapInsert(@, transaction.id, transaction)]

RECURSIVE ApplyTransactions(_, _)
ApplyTransactions(acc, updated) ==
    IF updated = <<>> THEN acc
    ELSE ApplyTransactions(ApplyTransaction(acc, updated[1]), Tail(updated))

\* outputs.get_mut(id): is_spent = true
MarkSpent(acc, id) ==
    IF id \in DOMAIN acc.outputs
    THEN [acc EXCEPT !.outputs[id].is_spent = TRUE]
    ELSE acc

\* `for output_to_unlock in transaction_sync_result.spent_output_ids`
RECURSIVE UnlockSpent(_, _)
UnlockSpent(acc, ids) ==
    IF ids = <<>> THEN acc
    ELSE LET a1 == MarkSpent(acc, ids[1])
             a2 == [a1 EXCEPT !.locked_outputs = @ \ {ids[1]},
                              !.unspent_outputs = MapRemove(@, ids[1])]
         IN UnlockSpent(a2, Tail(ids))

\* `for output_to_unlock in transaction_sync_result.output_ids_to_unlock`
RECURSIVE UnlockConflicting(_, _)
UnlockConflicting(acc, ids) ==
    IF ids = <<>> THEN acc
    ELSE LET a1 == MarkSpent(acc, ids[1])
             a2 == [a1 EXCEPT !.locked_outputs = @ \ {ids[1]}]
         IN UnlockConflicting(a2, Tail(ids))

\* update_account up to the storing of the account: the account as the write guard
\* leaves it, and whether InputAddressNotFound was returned
ApplyUpdate(acc, awb, outs, tsr, opts) ==
    LET marked == MarkUsed(acc, awb, 1)
    IN IF marked.error THEN marked
       ELSE LET a1 == MergeAddressesWithBalance(marked.account, awb, opts)
                a2 == InsertOutputs(a1, outs)
                a3 == ApplyTransactions(a2, tsr.updated_transactions)
                a4 == UnlockSpent(a3, tsr.spent_output_ids)
                a5 == UnlockConflicting(a4, tsr.output_ids_to_unlock)
            IN [error |-> FALSE, account |-> a5]

\* account_handle.balance(): the balance computed from the AccountState held in
\* memory
Balance(acc) ==
    [total |-> Cardinality(DOMAIN acc.unspent_outputs),
     available |-> Cardinality(DOMAIN acc.unspent_outputs \ acc.locked_outputs)]

(***************************************************************************)
(* sync_account                                                            *)
(***************************************************************************)
Tasks == DOMAIN acct_of
Accounts == {acct_of[t] : t \in Tasks}
Account(t) == acct_of[t]

NoOptions == [force_syncing |-> FALSE, address_start_index |-> 0]
NoTsr == [updated_transactions |-> <<>>, spent_output_ids |-> <<>>,
          output_ids_to_unlock |-> <<>>]

\* the address lists of an account: key_index 0..MaxKeyIndex, sorted
AddressList(int) == [i \in 1..(MaxKeyIndex + 1) |-> AccountAddress(i - 1, int)]

\* an account as it is between two syncs: the outputs it knows are unspent, some
\* are locked by transactions in flight, and these transactions are pending
InitialAccounts(sc) ==
    UNION {
        {[internal_addresses |-> AddressList(TRUE),
          public_addresses |-> AddressList(FALSE),
          addresses_with_balance |-> <<>>,
          outputs |-> [id \in U |-> OutputData(id, FALSE)],
          unspent_outputs |-> [id \in U |-> OutputData(id, FALSE)],
          locked_outputs |-> L,
          transactions |-> [x \in P |-> TransactionData(x, "Pending")],
          pending_transactions |-> P] : L \in SUBSET U, P \in SUBSET sc.txs}
        : U \in SUBSET sc.outs}

SyncStart(assign, sc) ==
    /\ acct_of = assign
    /\ scope = sc
    /\ clock = MIN_SYNC_INTERVAL
    /\ account \in [{assign[t] : t \in DOMAIN assign} -> InitialAccounts(sc)]
    /\ storage = account
    /\ last_synced = [a \in DOMAIN account |-> 0]
    /\ mutex = [a \in DOMAIN account |-> None]
    /\ pc = [t \in DOMAIN assign |-> "idle"]
    /\ options = [t \in DOMAIN assign |-> NoOptions]
    /\ time_now = [t \in DOMAIN assign |-> 0]
    /\ transaction_sync_result = [t \in DOMAIN assign |-> NoTsr]
    /\ addresses_to_sync = [t \in DOMAIN assign |-> <<>>]
    /\ addresses_with_balance = [t \in DOMAIN assign |-> <<>>]
    /\ all_outputs = [t \in DOMAIN assign |-> <<>>]
    /\ sy_result = [t \in DOMAIN assign |-> NoResult]
    /\ entry = [t \in DOMAIN assign |-> account[assign[t]]]
    /\ requested = [t \in DOMAIN assign |-> FALSE]

\* the task returns r: the last_synced guard is dropped with the locals
Finish(t, r) ==
    /\ pc' = [pc EXCEPT ![t] = "done"]
    /\ sy_result' = [sy_result EXCEPT ![t] = r]
    /\ mutex' = [mutex EXCEPT ![Account(t)] = None]
    /\ options' = [options EXCEPT ![t] = NoOptions]
    /\ time_now' = [time_now EXCEPT ![t] = 0]
    /\ transaction_sync_result' = [transaction_sync_result EXCEPT ![t] = NoTsr]
    /\ addresses_to_sync' = [addresses_to_sync EXCEPT ![t] = <<>>]
    /\ addresses_with_balance' = [addresses_with_balance EXCEPT ![t] = <<>>]
    /\ all_outputs' = [all_outputs EXCEPT ![t] = <<>>]
    /\ entry' = [entry EXCEPT ![t] = account'[Account(t)]]

Goto_SkipDiscovery(t, step) ==
    pc' = [pc EXCEPT ![t] = IF step = "addresses" THEN "commit" ELSE step]

\* the task goes on to the next step
Goto(t, step) == pc' = [pc EXCEPT ![t] = step]

\* sync_account is called: time_now is read, then the task waits for the mutex
StartSync(t) ==
    /\ pc[t] \in {"idle", "done"}
    /\ Goto(t, "lock")
    /\ \E force \in BOOLEAN, start \in scope.starts :
         options' = [options EXCEPT ![t] = [force_syncing |-> force,
                                            address_start_index |-> start]]
    /\ time_now' = [time_now EXCEPT ![t] = clock]
    /\ sy_result' = [sy_result EXCEPT ![t] = NoResult]
    /\ entry' = [entry EXCEPT ![t] = account[Account(t)]]
    /\ requested' = [requested EXCEPT ![t] = FALSE]
    /\ UNCHANGED <<acct_of, scope, clock, account, storage, last_synced, mutex,
                   transaction_sync_result, addresses_to_sync, addresses_with_balance,
                   all_outputs>>
    /\ UNCHANGED <<retryVars, timeVars, findVars, burnVars>>

MutexFree_Always(a) == TRUE

\* account_handle.last_synced.lock().await returns when no task holds the mutex
MutexFree(a) == mutex[a] = None

Throttled_IgnoresForce(t) ==
    time_now[t] - last_synced[Account(t)] < MIN_SYNC_INTERVAL

\* time_now - *last_synced < MIN_SYNC_INTERVAL && !options.force_syncing
Throttled(t) ==
    /\ time_now[t] - last_synced[Account(t)] < MIN_SYNC_INTERVAL
    /\ ~options[t].force_syncing

\* The mutex is acquired and the interval is checked.  time_now - *last_synced is
\* u128 arithmetic: when last_synced is the later one, a build with overflow
\* checks panics and one without wraps to a value that is no less than
\* MIN_SYNC_INTERVAL.
CheckLastSynced(t) ==
    /\ pc[t] = "lock"
    /\ MutexFree(Account(t))
    /\ UNCHANGED <<acct_of, scope, clock, account, storage, last_synced, requested>>
    /\ UNCHANGED <<retryVars, timeVars, findVars, burnVars>>
    /\ LET proceed ==
               /\ Goto(t, "tx_sync")
               /\ mutex' = [mutex EXCEPT ![Account(t)] = Some(t)]
               \* time_now is not read again: it is read anew after the commit
               /\ time_now' = [time_now EXCEPT ![t] = 0]
               /\ UNCHANGED <<entry, options, sy_result, transaction_sync_result,
                              addresses_to_sync, addresses_with_balance, all_outputs>>
       IN
       IF time_now[t] < last_synced[Account(t)]
       THEN \/ Finish(t, Err("panic"))
            \/ proceed
       ELSE IF Throttled(t)
       THEN Finish(t, Ok(Balance(account[Account(t)])))
       ELSE proceed

\* updated transactions the transaction sync reports
UpdatedTransactions ==
    UNION {[1..n -> {TransactionData(x, st) : x \in scope.txs, st \in InclusionStates}]
           : n \in 0..MaxUpdates}

TransactionSyncResults ==
    {[updated_transactions |-> u,
      spent_output_ids |-> SetToSeq(sp),
      output_ids_to_unlock |-> SetToSeq(ul)]
        : u \in UpdatedTransactions, sp \in SUBSET scope.outs, ul \in SUBSET scope.outs}

\* transactions::sync_transactions
SyncTransactions(t) ==
    /\ pc[t] = "tx_sync"
    /\ requested' = [requested EXCEPT ![t] = TRUE]
    /\ UNCHANGED <<acct_of, scope, clock, account, storage, last_synced>>
    /\ UNCHANGED <<retryVars, timeVars, findVars, burnVars>>
    /\ \/ Finish(t, Err("NodeError"))
       \/ /\ \E tsr \in TransactionSyncResults :
               transaction_sync_result' = [transaction_sync_result EXCEPT ![t] = tsr]
          /\ Goto(t, "addresses")
          /\ UNCHANGED <<entry, mutex, options, time_now, sy_result, addresses_to_sync,
                         addresses_with_balance, all_outputs>>

\* public addresses first, then by key_index
AddressBefore(a, b) ==
    (~a.internal /\ b.internal) \/ (a.internal = b.internal /\ a.key_index < b.key_index)

RECURSIVE AddressSeq(_)
AddressSeq(S) ==
    IF S = {} THEN <<>>
    ELSE LET m == CHOOSE x \in S : \A y \in S \ {x} : AddressBefore(x, y)
         IN <<m>> \o AddressSeq(S \ {m})

\* the lists addresses::get_addresses_to_sync may select: addresses from
\* address_start_index on
AddressSelections(opts) ==
    {AddressSeq(S) :
        S \in SUBSET {a \in scope.addrs : a.key_index >= opts.address_start_index}}

\* addresses::get_addresses_to_sync
GetAddressesToSync(t) ==
    /\ pc[t] = "addresses"
    /\ UNCHANGED <<acct_of, scope, clock, account, storage, last_synced, requested>>
    /\ UNCHANGED <<retryVars, timeVars, findVars, burnVars>>
    /\ \/ Finish(t, Err("AddressError"))
       \/ /\ \E sel \in AddressSelections(options[t]) :
               addresses_to_sync' = [addresses_to_sync EXCEPT ![t] = sel]
          /\ Goto(t, "discover")
          /\ UNCHANGED <<entry, mutex, options, time_now, sy_result, transaction_sync_result,
                         addresses_with_balance, all_outputs>>

\* what the node reports of each output it knows; the outputs sit on the first
\* synced address
Observations(sel) ==
    IF sel = <<>> THEN {<<>>} ELSE [scope.outs -> {"none", "unspent", "spent"}]

ObservedOutputs(obs) ==
    LET seen == SetToSeq({id \in DOMAIN obs : obs[id] # "none"})
    IN [i \in 1..Len(seen) |-> OutputData(seen[i], obs[seen[i]] = "spent")]

\* addresses::get_address_output_ids, then for every address outputs::get_outputs,
\* output_response_to_output_data and the sum of the amounts
DiscoverOutputs(t) ==
    /\ pc[t] = "discover"
    /\ requested' = [requested EXCEPT ![t] = TRUE]
    /\ UNCHANGED <<acct_of, scope, clock, account, storage, last_synced>>
    /\ UNCHANGED <<retryVars, timeVars, findVars, burnVars>>
    /\ \/ Finish(t, Err("NodeError"))
       \/ /\ \E obs \in Observations(addresses_to_sync[t]) :
               LET sel == addresses_to_sync[t]
                   outs == ObservedOutputs(obs)
               IN /\ all_outputs' = [all_outputs EXCEPT ![t] = outs]
                  /\ addresses_with_balance' =
                       [addresses_with_balance EXCEPT ![t] =
                          [i \in 1..Len(sel) |->
                             AddressWithBalance(sel[i].key_index, sel[i].internal,
                                 IF i = 1 THEN SumAmounts([j \in 1..Len(outs) |-> outs[j].amount])
                                 ELSE 0)]]
          /\ Goto(t, "consolidate")
          /\ UNCHANGED <<entry, mutex, options, time_now, sy_result, transaction_sync_result,
                         addresses_to_sync>>

\* consolidate_outputs (the signer is not a ledger)
Consolidate(t) ==
    /\ pc[t] = "consolidate"
    /\ UNCHANGED <<acct_of, scope, clock, account, storage, last_synced, requested>>
    /\ UNCHANGED <<retryVars, timeVars, findVars, burnVars>>
    /\ \/ Finish(t, Err("ConsolidationError"))
       \/ /\ Goto(t, "commit")
          /\ UNCHANGED <<entry, mutex, options, time_now, sy_result, transaction_sync_result,
                         addresses_to_sync, addresses_with_balance, all_outputs>>

\* update_account, from account_handle.write() to the storing of the account
UpdateAccount(t) ==
    /\ pc[t] = "commit"
    /\ UNCHANGED <<acct_of, scope, clock, storage, last_synced, requested>>
    /\ UNCHANGED <<retryVars, timeVars, findVars, burnVars>>
    /\ LET updated == ApplyUpdate(account[Account(t)], addresses_with_balance[t],
                                  all_outputs[t], transaction_sync_result[t], options[t])
       IN /\ account' = [account EXCEPT ![Account(t)] = updated.account]
          /\ IF updated.error
             THEN Finish(t, Err("InputAddressNotFound"))
             ELSE /\ Goto(t, "save")
                  \* what was collected is not read again
                  /\ transaction_sync_result' = [transaction_sync_result EXCEPT ![t] = NoTsr]
                  /\ addresses_to_sync' = [addresses_to_sync EXCEPT ![t] = <<>>]
                  /\ addresses_with_balance' = [addresses_with_balance EXCEPT ![t] = <<>>]
                  /\ all_outputs' = [all_outputs EXCEPT ![t] = <<>>]
                  /\ UNCHANGED <<entry, mutex, options, time_now, sy_result>>

\* update_account: storage::manager::get().await?.lock().await.save_account(..).await?
\* under the write guard
SaveAccount(t) ==
    /\ pc[t] = "save"
    /\ UNCHANGED <<acct_of, scope, clock, account, last_synced, requested>>
    /\ UNCHANGED <<retryVars, timeVars, findVars, burnVars>>
    /\ \/ /\ scope.storage_fails
          /\ Finish(t, Err("StorageError"))
          /\ UNCHANGED storage
       \/ /\ storage' = [storage EXCEPT ![Account(t)] = account[Account(t)]]
          /\ Goto(t, "balance")
          /\ UNCHANGED <<entry, mutex, options, time_now, sy_result, transaction_sync_result,
                         addresses_to_sync, addresses_with_balance, all_outputs>>

\* the task is between account_handle.write().await and the end of update_account,
\* where the guard is dropped
HoldsWriteGuard(t) == pc[t] = "save"

\* the task is inside sync_account, waiting at an .await
Suspended(t) == pc[t] \notin {"idle", "done"}

SecondTimeNow_FirstRead(t) == time_now[t]

\* the second `let time_now = SystemTime::now()...as_millis()`, read after the commit
SecondTimeNow(t) == clock

\* the balance is computed, last_synced is set and the call returns
FinishSync(t) ==
    /\ pc[t] = "balance"
    /\ UNCHANGED <<acct_of, scope, clock, account, storage, requested>>
    /\ UNCHANGED <<retryVars, timeVars, findVars, burnVars>>
    /\ last_synced' = [last_synced EXCEPT ![Account(t)] = SecondTimeNow(t)]
    /\ Finish(t, Ok(Balance(account[Account(t)])))

\* a millisecond passes
Tick ==
    /\ clock < MaxClock
    /\ clock' = clock + 1
    /\ UNCHANGED <<acct_of, scope, account, storage, last_synced, mutex, pc, options,
                   time_now, transaction_sync_result, addresses_to_sync,
                   addresses_with_balance, all_outputs, sy_result, entry, requested>>
    /\ UNCHANGED <<retryVars, timeVars, findVars, burnVars>>

SyncNext ==
    \/ \E t \in Tasks : StartSync(t)
    \/ \E t \in Tasks : CheckLastSynced(t)
    \/ \E t \in Tasks : SyncTransactions(t)
    \/ \E t \in Tasks : GetAddressesToSync(t)
    \/ \E t \in Tasks : DiscoverOutputs(t)
    \/ \E t \in Tasks : Consolidate(t)
    \/ \E t \in Tasks : UpdateAccount(t)
    \/ \E t \in Tasks : SaveAccount(t)
    \/ \E t \in Tasks : FinishSync(t)

TimedSyncNext == SyncNext \/ Tick

OtherIdle == RetryIdle /\ TimeIdle /\ FindIdle /\ BurnIdle

PublicAddress(k) == [key_index |-> k, internal |-> FALSE]

\* one caller; the node knows outputs on the first public address
OutputScope ==
    [outs |-> OutputIds, txs |-> {}, addrs |-> {PublicAddress(0)}, starts |-> {0},
     storage_fails |-> FALSE]

\* the same with a storage that can fail
FailingStorageScope == [OutputScope EXCEPT !.storage_fails = TRUE]

\* one caller; the node knows transactions
TransactionScope ==
    [outs |-> {}, txs |-> TxIds, addrs |-> {}, starts |-> {0}, storage_fails |-> FALSE]

\* one caller; the node knows one output
SingleOutputScope ==
    [outs |-> {1}, txs |-> {}, addrs |-> {PublicAddress(0)}, starts |-> {0},
     storage_fails |-> TRUE]

EmptyScope ==
    [outs |-> {}, txs |-> {}, addrs |-> {}, starts |-> {0}, storage_fails |-> FALSE]

\* one caller; the node knows the public addresses of the account and one more,
\* and the caller chooses address_start_index
AddressScope ==
    [outs |-> {}, txs |-> {}, addrs |-> {PublicAddress(k) : k \in 0..(MaxKeyIndex + 1)},
     starts |-> 0..MaxKeyIndex, storage_fails |-> FALSE]

OutputSyncInit == SyncStart(1 :> 1, OutputScope) /\ OtherIdle
OutputSyncSpec == OutputSyncInit /\ [][SyncNext]_vars

FailingStorageSyncInit == SyncStart(1 :> 1, FailingStorageScope) /\ OtherIdle
FailingStorageSyncSpec == FailingStorageSyncInit /\ [][SyncNext]_vars

AddressSyncInit == SyncStart(1 :> 1, AddressScope) /\ OtherIdle
AddressSyncSpec == AddressSyncInit /\ [][SyncNext]_vars

TransactionSyncInit == SyncStart(1 :> 1, TransactionScope) /\ OtherIdle
TransactionSyncSpec == TransactionSyncInit /\ [][SyncNext]_vars

\* one caller with a node that knows an output, or two concurrent callers of one
\* account or of two accounts, the clock running
TimedSyncInit ==
    /\ \/ SyncStart(1 :> 1, SingleOutputScope)
       \/ SyncStart(1 :> 1 @@ 2 :> 1 @@ 3 :> 2, EmptyScope)
    /\ OtherIdle
TimedSyncSpec == TimedSyncInit /\ [][TimedSyncNext]_vars

(***************************************************************************)
(* Properties of sync_account                                              *)
(***************************************************************************)
InPipeline(t) ==
    pc[t] \in {"tx_sync", "addresses", "discover", "consolidate", "commit", "save", "balance"}

Committed(t) == pc[t] = "save"

Failed(r) == r.kind \notin {"Ok", "None"}

UnspentOf(acc) == {id \in DOMAIN acc.outputs : ~acc.outputs[id].is_spent}

\* C2: after every sync commit, unspent_outputs holds exactly the entries of
\* outputs whose is_spent is false.
C2_UnspentOutputsAreTheUnspent ==
    \A t \in Tasks :
        Committed(t) =>
            DOMAIN account[Account(t)].unspent_outputs = UnspentOf(account[Account(t)])

\* C6: a call made less than MIN_SYNC_INTERVAL after the last successful sync of
\* the account and without force_syncing returns the cached balance, having made
\* no node request and changed neither AccountState nor last_synced; with
\* force_syncing the pipeline starts whatever the interval.
C6_ThrottledCallReturnsCachedBalance ==
    [][\A t \in Tasks :
         (pc[t] = "lock" /\ pc'[t] # "lock" /\ time_now[t] >= last_synced[Account(t)]) =>
            /\ (time_now[t] - last_synced[Account(t)] < MIN_SYNC_INTERVAL
                    /\ ~options[t].force_syncing) =>
                  /\ pc'[t] = "done"
                  /\ sy_result'[t] = Ok(Balance(account[Account(t)]))
                  /\ ~requested'[t]
                  /\ account' = account
                  /\ account[Account(t)] = entry[t]
                  /\ storage' = storage
                  /\ last_synced' = last_synced
            /\ options[t].force_syncing => pc'[t] = "tx_sync"]_vars

\* a call answered from the cache after a successful sync of the account
C6_Witness ==
    \E t \in Tasks :
        /\ pc[t] = "done"
        /\ sy_result[t].kind = "Ok"
        /\ ~requested[t]
        /\ last_synced[Account(t)] > 0
        /\ clock - last_synced[Account(t)] < MIN_SYNC_INTERVAL

\* C7: two calls for one account are never both between the acquisition of the
\* last_synced mutex and their return, and the mutex of an account is held by
\* a call of that account only, so that calls for other accounts are not kept out.
C7_OneSyncPerAccount ==
    /\ \A t1, t2 \in Tasks :
         (t1 # t2 /\ Account(t1) = Account(t2)) => ~(InPipeline(t1) /\ InPipeline(t2))
    /\ \A t \in Tasks : InPipeline(t) <=> mutex[Account(t)] = Some(t)
    /\ \A a \in Accounts : IsSome(mutex[a]) => Account(mutex[a][1]) = a

\* one call is in its pipeline, a second for the same account waits for the
\* mutex, and a call for another account is in its pipeline too
C7_Witness ==
    \E t1, t2, t3 \in Tasks :
        /\ t1 # t2 /\ Account(t1) = Account(t2) /\ Account(t3) # Account(t1)
        /\ InPipeline(t1) /\ pc[t2] = "lock"
        /\ InPipeline(t3)

\* C8: a call that returns an error leaves AccountState as it was when the call
\* started.
C8_FailedSyncLeavesAccountState ==
    [][\A t \in Tasks :
         (pc[t] # "done" /\ pc'[t] = "done" /\ Failed(sy_result'[t])) =>
            account'[Account(t)] = entry[t]]_vars

PendingWellFormed(acc) ==
    /\ acc.pending_transactions \subseteq DOMAIN acc.transactions
    /\ \A x \in acc.pending_transactions :
         acc.transactions[x].inclusion_state \notin {"Confirmed", "Conflicting"}

\* the last update of transaction x in the list
LastUpdate(updated, x) ==
    updated[CHOOSE i \in 1..Len(updated) :
               /\ updated[i].id = x
               /\ \A j \in (i + 1)..Len(updated) : updated[j].id # x]

\* C9: after every sync commit pending_transactions is a subset of the keys of
\* transactions and holds no Confirmed or Conflicting transaction; the commit
\* upserts every updated transaction and removes from pending_transactions those
\* updated to Confirmed or Conflicting.
C9_PendingTransactions ==
    /\ [](\A a \in Accounts : PendingWellFormed(account[a]))
    /\ [][\A t \in Tasks :
            (pc[t] = "commit" /\ pc'[t] = "save") =>
               LET updated == transaction_sync_result[t].updated_transactions
                   after == account'[Account(t)]
               IN \A i \in 1..Len(updated) :
                    /\ updated[i].id \in DOMAIN after.transactions
                    /\ after.transactions[updated[i].id] = LastUpdate(updated, updated[i].id)
                    /\ updated[i].inclusion_state \in {"Confirmed", "Conflicting"}
                          => updated[i].id \notin after.pending_transactions]_vars

\* a commit has taken a transaction that was pending out of pending_transactions
C9_Witness ==
    \E t \in Tasks :
        /\ Committed(t)
        /\ \E x \in entry[t].pending_transactions :
             /\ x \notin account[Account(t)].pending_transactions
             /\ account[Account(t)].transactions[x].inclusion_state = "Confirmed"

\* C16: once outputs[id].is_spent is true, no later commit sets it back to false
\* or puts id back into unspent_outputs.
C16_SpentStaysSpent ==
    [][\A a \in Accounts : \A id \in DOMAIN account[a].outputs :
         account[a].outputs[id].is_spent =>
            /\ id \in DOMAIN account'[a].outputs
            /\ account'[a].outputs[id].is_spent
            /\ id \in DOMAIN account'[a].unspent_outputs
                  => id \in DOMAIN account[a].unspent_outputs]_vars

\* the ids a TransactionSyncResult lists for unlocking
ListedForUnlock(tsr) ==
    {tsr.spent_output_ids[i] : i \in 1..Len(tsr.spent_output_ids)}
        \cup {tsr.output_ids_to_unlock[i] : i \in 1..Len(tsr.output_ids_to_unlock)}

\* the ids whose record in `outputs` a step turns to spent
NewlySpent(old, new) ==
    {id \in DOMAIN new.outputs :
        /\ new.outputs[id].is_spent
        /\ ~(id \in DOMAIN old.outputs /\ old.outputs[id].is_spent)}

\* after a commit every locked id is a key of unspent_outputs, and the ids listed
\* in spent_output_ids or output_ids_to_unlock are no longer locked
C20_ListedAreUnlocked ==
    [][\A t \in Tasks : (pc[t] = "commit" /\ pc'[t] = "save") =>
          LET new == account'[Account(t)]
          IN /\ new.locked_outputs \subseteq DOMAIN new.unspent_outputs
             /\ ListedForUnlock(transaction_sync_result[t]) \cap new.locked_outputs = {}]_vars

\* C20: after every sync commit every id in locked_outputs is in unspent_outputs,
\* every id listed in spent_output_ids or output_ids_to_unlock has left
\* locked_outputs, and no id the commit marks spent remains locked.
C20_LockedAreUnspent ==
    [][\A t \in Tasks : (pc[t] = "commit" /\ pc'[t] = "save") =>
          LET old == account[Account(t)]
              new == account'[Account(t)]
          IN /\ new.locked_outputs \subseteq DOMAIN new.unspent_outputs
             /\ ListedForUnlock(transaction_sync_result[t]) \cap new.locked_outputs = {}
             /\ NewlySpent(old, new) \cap new.locked_outputs = {}]_vars

\* C21: a commit with address_start_index = s leaves in addresses_with_balance the
\* previous entries with key_index < s, in their order, followed by the freshly
\* computed entries in the order they were synced, and nothing else.
C21_AddressesWithBalanceMerged ==
    [][\A t \in Tasks : (pc[t] = "commit" /\ pc'[t] = "save") =>
          LET old == account[Account(t)].addresses_with_balance
              new == account'[Account(t)].addresses_with_balance
              fresh == addresses_with_balance[t]
              s == options[t].address_start_index
              kept == SelectSeq(old, LAMBDA a : a.key_index < s)
              n == Len(new) - Len(fresh)
          IN /\ n = Len(kept)
             /\ SubSeq(new, 1, n) = kept
             /\ SubSeq(new, n + 1, Len(new)) = fresh
             /\ \A i \in 1..n : new[i].key_index < s]_vars

\* C21 witness: a commit with address_start_index = 1 over an account that had
\* entries for key_index 0 and 1 kept the first and appended the fresh entry for 1.
C21_Witness ==
    \E t \in Tasks :
        /\ pc[t] = "save"
        /\ options[t].address_start_index = 1
        /\ entry[t].addresses_with_balance =
              <<AddressWithBalance(0, FALSE, 0), AddressWithBalance(1, FALSE, 0)>>
        /\ account[Account(t)].addresses_with_balance =
              <<AddressWithBalance(0, FALSE, 0), AddressWithBalance(1, FALSE, 0)>>

\* the steps of sync_account in the order of its body
StepOrder ==
    <<"lock", "tx_sync", "addresses", "discover", "consolidate", "commit", "save", "balance">>

StepIndex(step) == CHOOSE i \in 1..Len(StepOrder) : StepOrder[i] = step

\* C22: within a call the steps follow in a fixed order: transaction sync, address
\* selection, output discovery, consolidation, the commit, which uses the
\* transaction-sync result computed at the start, and only then last_synced.
C22_PipelineOrder ==
    [][/\ \A t \in Tasks : pc'[t] # pc[t] =>
            IF pc[t] \in {"idle", "done"} THEN pc'[t] = "lock"
            ELSE \/ pc'[t] = "done"
                 \/ /\ pc[t] # "balance"
                    /\ pc'[t] = StepOrder[StepIndex(pc[t]) + 1]
       /\ \A t \in Tasks :
            /\ (pc[t] \in {"addresses", "discover", "consolidate"} /\ pc'[t] # "done") =>
                  transaction_sync_result'[t] = transaction_sync_result[t]
            /\ (/\ transaction_sync_result'[t] # transaction_sync_result[t]
                /\ transaction_sync_result'[t] # NoTsr) => pc[t] = "tx_sync"
            /\ (pc[t] = "commit" /\ pc'[t] = "save") =>
                  account'[Account(t)] =
                     ApplyUpdate(account[Account(t)], addresses_with_balance[t],
                                 all_outputs[t], transaction_sync_result[t],
                                 options[t]).account
       /\ account' # account => \E t \in Tasks : pc[t] = "commit"
       /\ last_synced' # last_synced =>
            \E t \in Tasks : pc[t] = "balance" /\ pc'[t] = "done"]_vars

\* C22 witness: a call went through every step and its commit applied what the
\* transaction sync reported at the start.
C22_Witness ==
    \E t \in Tasks :
        /\ pc[t] = "balance"
        /\ entry[t].pending_transactions # {}
        /\ account[Account(t)].pending_transactions = {}

\* C23: no task waits at an .await while it holds the write guard of the account,
\* so at every suspension point the AccountState in memory is the persisted one.
C23_NoAwaitUnderWriteGuard ==
    \A t \in Tasks :
        Suspended(t) =>
            /\ ~HoldsWriteGuard(t)
            /\ account[Account(t)] = storage[Account(t)]

\* the address list of the half a synced address belongs to
HalfOf(acc, a) == IF a.internal THEN acc.internal_addresses ELSE acc.public_addresses

HasEntry(acc, a) ==
    \E i \in 1..Len(HalfOf(acc, a)) : HalfOf(acc, a)[i].key_index = a.key_index

SameKeys(l1, l2) ==
    /\ Len(l1) = Len(l2)
    /\ \A i \in 1..Len(l1) :
          l1[i].key_index = l2[i].key_index /\ l1[i].internal = l2[i].internal

\* a commit that finds every synced address marks each of them used and keeps the
\* address lists otherwise; a commit fails with InputAddressNotFound exactly when
\* a synced address has no entry
C24_FoundAreMarked ==
    [][\A t \in Tasks : (pc[t] = "commit" /\ pc'[t] # "commit") =>
          LET old == account[Account(t)]
              new == account'[Account(t)]
              awb == addresses_with_balance[t]
              missing == \E i \in 1..Len(awb) : ~HasEntry(old, awb[i])
          IN /\ SameKeys(old.public_addresses, new.public_addresses)
             /\ SameKeys(old.internal_addresses, new.internal_addresses)
             /\ missing <=> (pc'[t] = "done" /\ sy_result'[t] = Err("InputAddressNotFound"))
             /\ ~missing =>
                   \A i \in 1..Len(awb) :
                      \E k \in 1..Len(HalfOf(new, awb[i])) :
                         /\ HalfOf(new, awb[i])[k].key_index = awb[i].key_index
                         /\ HalfOf(new, awb[i])[k].used]_vars

\* C24: in the commit every synced address found by the search gets used = true
\* and the address lists are otherwise kept; when a synced address has no entry
\* the commit fails with InputAddressNotFound and AccountState is as before,
\* the used flags of the addresses processed earlier included.
C24_NotFoundLeavesAccountState ==
    [][\A t \in Tasks : (pc[t] = "commit" /\ pc'[t] # "commit") =>
          LET old == account[Account(t)]
              new == account'[Account(t)]
              awb == addresses_with_balance[t]
              missing == \E i \in 1..Len(awb) : ~HasEntry(old, awb[i])
          IN /\ SameKeys(old.public_addresses, new.public_addresses)
             /\ SameKeys(old.internal_addresses, new.internal_addresses)
             /\ missing <=> (pc'[t] = "done" /\ sy_result'[t] = Err("InputAddressNotFound"))
             /\ ~missing =>
                   \A i \in 1..Len(awb) :
                      \E k \in 1..Len(HalfOf(new, awb[i])) :
                         /\ HalfOf(new, awb[i])[k].key_index = awb[i].key_index
                         /\ HalfOf(new, awb[i])[k].used
             /\ missing => new = old]_vars

\* C25: whenever the interval check of sync_account is evaluated, the time_now it
\* compares is not older than last_synced, also for a call that read time_now and
\* then waited on the mutex while another sync of the account completed; the
\* subtraction does not underflow and the call does not panic.
C25_TimeNowNotOlderThanLastSynced ==
    [][\A t \in Tasks : (pc[t] = "lock" /\ pc'[t] # "lock") =>
          /\ time_now[t] >= last_synced[Account(t)]
          /\ sy_result'[t] # Err("panic")]_vars

\* C17: last_synced changes only in the last step of a call that returns Ok, which
\* sets it to the wall clock read after the commit; a call that fails and a call
\* answered from the cached balance leave it as it was.
C17_LastSyncedOnlyOnSuccess ==
    [][/\ \A a \in Accounts :
            last_synced'[a] # last_synced[a] =>
               \E t \in Tasks : /\ Account(t) = a
                                /\ pc[t] = "balance" /\ pc'[t] = "done"
                                /\ sy_result'[t].kind = "Ok"
       /\ \A t \in Tasks :
            (pc[t] = "balance" /\ pc'[t] = "done") =>
               /\ sy_result'[t].kind = "Ok"
               /\ last_synced'[Account(t)] = clock
       /\ \A t \in Tasks :
            (pc[t] \notin {"balance", "done"} /\ pc'[t] = "done") =>
               last_synced' = last_synced]_vars

\* a full sync returned Ok after the clock had advanced, and last_synced is the
\* time of its return
C17_Witness ==
    \E t \in Tasks :
        /\ pc[t] = "done" /\ sy_result[t].kind = "Ok" /\ requested[t]
        /\ clock > MIN_SYNC_INTERVAL
        /\ last_synced[Account(t)] = clock

(***************************************************************************)
(* Burn and BurnDto                                                        *)
(***************************************************************************)
BurnIds == 1..MaxBurnIds

\* BTreeMap<TokenId, U256>
TokenMaps == UNION {[T -> 1..MaxBurnAmount] : T \in SUBSET BurnIds}

Optional(S) == {None} \cup {Some(x) : x \in S}

\* struct Burn
Burns ==
    [accounts : SUBSET BurnIds, nfts : SUBSET BurnIds, foundries : SUBSET BurnIds,
     native_tokens : TokenMaps]

\* struct BurnDto
BurnDtos ==
    [accounts : Optional(SUBSET BurnIds), nfts : Optional(SUBSET BurnIds),
     foundries : Optional(SUBSET BurnIds), native_tokens : Optional(TokenMaps)]

\* bool::then_some
ThenSome(b, v) == IF b THEN Some(v) ELSE None

\* Option::unwrap_or_default
UnwrapOrDefault(o, default) == IF IsSome(o) THEN o[1] ELSE default

\* impl From<&Burn> for BurnDto
BurnDtoFromBurn(value) ==
    [accounts |-> ThenSome(value.accounts # {}, value.accounts),
     nfts |-> ThenSome(value.nfts # {}, value.nfts),
     foundries |-> ThenSome(value.foundries # {}, value.foundries),
     native_tokens |->
        ThenSome(DOMAIN value.native_tokens # {},
                 [token_id \in DOMAIN value.native_tokens |-> value.native_tokens[token_id]])]

\* impl From<BurnDto> for Burn
BurnFromBurnDto(value) ==
    [accounts |-> UnwrapOrDefault(value.accounts, {}),
     nfts |-> UnwrapOrDefault(value.nfts, {}),
     foundries |-> UnwrapOrDefault(value.foundries, {}),
     native_tokens |-> UnwrapOrDefault(value.native_tokens, <<>>)]

BurnValue(b) == [type |-> "Burn", fields |-> b]
BurnDtoValue(d) == [type |-> "BurnDto", fields |-> d]

BurnStart ==
    /\ bn_origin \in {BurnValue(b) : b \in Burns} \cup {BurnDtoValue(d) : d \in BurnDtos}
    /\ bn_value = bn_origin
    /\ bn_hops = 0

\* BurnDto::from(&burn)
IntoBurnDto ==
    /\ bn_value.type = "Burn"
    /\ bn_hops < MaxHops
    /\ bn_value' = BurnDtoValue(BurnDtoFromBurn(bn_value.fields))
    /\ bn_hops' = bn_hops + 1
    /\ UNCHANGED <<bn_origin, retryVars, timeVars, findVars, syncVars>>

\* Burn::from(burn_dto)
IntoBurn ==
    /\ bn_value.type = "BurnDto"
    /\ bn_hops < MaxHops
    /\ bn_value' = BurnValue(BurnFromBurnDto(bn_value.fields))
    /\ bn_hops' = bn_hops + 1
    /\ UNCHANGED <<bn_origin, retryVars, timeVars, findVars, syncVars>>

BurnNext == IntoBurnDto \/ IntoBurn

BurnInit == BurnStart /\ RetryIdle /\ TimeIdle /\ FindIdle /\ SyncIdle

BurnSpec == BurnInit /\ [][BurnNext]_vars

\* C15: converting a Burn to a BurnDto and back, and a BurnDto to a Burn and back,
\* gives the value started from, so that an absent field of a BurnDto stays
\* distinct from a present empty collection.
C15_BurnRoundTrip ==
    bn_hops = 2 => bn_value = bn_origin

====
